---- MODULE Spec2Model ----
(***************************************************************************)
(* A model of sm_cli.py: the device registry (DeviceDatabase, an sqlite     *)
(* table), the command tool (SSHCommandTool.forward), the connectivity      *)
(* test tool (SSHTestTool.forward) and the brand suggestion parser.         *)
(*                                                                          *)
(* Python strings are sequences of one-character strings, so that empty-    *)
(* ness, case conversion and prefix tests are computed and not assumed.     *)
(*                                                                          *)
(* devices  the rows of the devices table (committed)                       *)
(* dbret    the last DeviceDatabase call of the command loop and its result *)
(* call     the forward call in progress: arguments, position, locals       *)
(* calls    the paramiko calls that forward call has made, in order         *)
(* ret      what the forward call returned                                  *)
(* sq       the locks and open transactions of the sqlite file              *)
(* rs       a call of get_brand_commands_from_prompt taken by itself        *)
(***************************************************************************)
EXTENDS Integers, Sequences, FiniteSets, TLC

VARIABLES devices, dbret, call, calls, ret, sq, rs

vars == <<devices, dbret, call, calls, ret, sq, rs>>

----------------------------------------------------------------------------
(* Strings                                                                   *)

LowerAlpha == <<"a","b","c","d","e","f","g","h","i","j","k","l","m",
                "n","o","p","q","r","s","t","u","v","w","x","y","z">>
UpperAlpha == <<"A","B","C","D","E","F","G","H","I","J","K","L","M",
                "N","O","P","Q","R","S","T","U","V","W","X","Y","Z">>

\* str.lower() / str.upper() on one character
LowerChar(c) ==
    IF \E i \in DOMAIN UpperAlpha : UpperAlpha[i] = c
    THEN LowerAlpha[CHOOSE i \in DOMAIN UpperAlpha : UpperAlpha[i] = c]
    ELSE c

UpperChar(c) ==
    IF \E i \in DOMAIN LowerAlpha : LowerAlpha[i] = c
    THEN UpperAlpha[CHOOSE i \in DOMAIN LowerAlpha : LowerAlpha[i] = c]
    ELSE c

lower(s) == [i \in DOMAIN s |-> LowerChar(s[i])]
upper(s) == [i \in DOMAIN s |-> UpperChar(s[i])]

\* Python truthiness of a str, and `a or b`
Truthy(s) == s # <<>>
Or(a, b) == IF Truthy(a) THEN a ELSE b

\* str.startswith
startswith(s, p) == Len(p) <= Len(s) /\ SubSeq(s, 1, Len(p)) = p

S_empty   == <<>>
S_admin   == <<"a","d","m","i","n">>
S_root    == <<"r","o","o","t">>
S_secret  == <<"s","e","c","r","e","t">>
S_pw      == <<"p","w">>
S_sw1     == <<"s","w","1">>
S_sw2     == <<"s","w","2">>
S_Unknown == <<"U","n","k","n","o","w","n">>
S_Arista  == <<"A","r","i","s","t","a">>
S_Cisco   == <<"C","i","s","c","o">>
S_ZTE     == <<"Z","T","E">>
S_show    == <<"s","h","o","w">>
S_enable  == <<"e","n","a","b","l","e">>
S_err     == <<"%","e","r","r">>

----------------------------------------------------------------------------
(* Bounds and input sets                                                     *)

\* longest stdout the remote side sends
MaxOutLen == 2

\* a byte that is not valid in the stream's encoding
BadByte == "0xFF"

Hosts        == {S_sw1, S_sw2}
RegUsernames == {S_admin, S_empty}
RegPasswords == {S_secret, S_empty}
RegBrands    == {S_Arista, S_ZTE}
ArgUsernames == {S_empty, S_root}
ArgPasswords == {S_empty, S_pw}
Commands     == {S_empty, S_show}
\* what the remote side may send on stdout (byte strings of up to MaxOutLen
\* bytes, some of them undecodable) and on stderr
OutBytes     == {"v", BadByte}
Outputs      == UNION {[1..n -> OutBytes] : n \in 0..MaxOutLen}
Errors       == {S_empty, S_err}

\* default of the port parameter, and the timeout handed to connect
DefaultPort    == 22
ConnectTimeout == 10

----------------------------------------------------------------------------
(* DeviceDatabase: the devices table                                         *)

\* CREATE TABLE devices (id, host UNIQUE, username, password, brand); no code
\* reads the id column, which is left out of the rows
Row(host, username, password, brand) ==
    [host |-> host, username |-> username, password |-> password,
     brand |-> brand]

\* SELECT * FROM devices WHERE host = ?
SelectByHost(table, host) == {r \in table : r.host = host}

\* INSERT OR REPLACE: the UNIQUE(host) conflict deletes the old row first
\* (variant: a plain INSERT, keeping the old row)
InsertKeepingOld(table, row) == table \cup {row}
InsertOrReplace(table, row) ==
    (table \ SelectByHost(table, row.host)) \cup {row}

\* UPDATE devices SET <the truthy fields> WHERE host = ?
\* (variant: every field is set, the empty ones too)
UpdatedRowAllFields(r, username, password, brand) ==
    [r EXCEPT !.username = username, !.password = password, !.brand = brand]
UpdatedRow(r, username, password, brand) ==
    [r EXCEPT !.username = IF Truthy(username) THEN username ELSE @,
              !.password = IF Truthy(password) THEN password ELSE @,
              !.brand    = IF Truthy(brand) THEN brand ELSE @]

\* fetchone() of get_device: None (the empty set) or the one row as a dict
get_device(table, host, fails) ==
    IF fails THEN {} ELSE SelectByHost(table, host)

\* the table get_device leaves: its one statement is a SELECT
\* (variant: a host with no record is registered with the defaults)
get_deviceRegistering(table, host, fails) ==
    IF fails \/ SelectByHost(table, host) # {}
    THEN table
    ELSE table \cup {Row(host, S_admin, S_empty, S_Unknown)}
get_deviceLeaves(table, host, fails) == table

----------------------------------------------------------------------------
(* The brand suggestion parser (SSHCommandTool.parse_brand_commands)         *)

\* "<Brand>" followed by the two-character suffix every section title carries
Title(name) == Append(name, "SheBei")

\* brand_mapping: lower-case brand key -> section title
brand_mapping ==
    { <<lower(S_Cisco), Title(S_Cisco)>>,
      <<lower(S_Arista), Title(S_Arista)>>,
      <<<<"j","u","n","i","p","e","r">>, Title(<<"J","u","n","i","p","e","r">>)>>,
      <<<<"h","u","a","w","e","i">>, Title(<<"H","u","a","w","e","i">>)>>,
      <<<<"h","3","c">>, Title(<<"H","3","C">>)>>,
      <<<<"f","o","r","t","i","n","e","t">>, Title(<<"F","o","r","t","i","n","e","t">>)>>,
      <<<<"p","a","l","o">>, Append(<<"P","a","l","o"," ","A","l","t","o">>, "SheBei")>> }

\* brand_mapping.get(key): the title, or None (modelled as the falsy <<>>)
MappingGet(key) ==
    IF \E e \in brand_mapping : e[1] = key
    THEN (CHOOSE e \in brand_mapping : e[1] = key)[2]
    ELSE <<>>

\* A stripped line of SM-CLI.md is a "#### <title>" heading, one of the five
\* "- **<key>**: <value>" fields, or other text.
Heading(title)    == [kind |-> "heading", title |-> title, key |-> "", value |-> ""]
Field(key, value) == [kind |-> "field", title |-> <<>>, key |-> key, value |-> value]
Text              == [kind |-> "text", title |-> <<>>, key |-> "", value |-> ""]

FieldKeys == {"command_style", "mode_switch", "common_commands",
              "config_save", "special_features"}

\* the for-loop over the lines: brand_info after the scan from line i on
RECURSIVE ScanLines(_, _, _, _, _)
ScanLines(lines, i, brand_section, in_brand_section, brand_info) ==
    IF i > Len(lines) THEN brand_info
    ELSE LET line == lines[i]
             isTarget == line.kind = "heading"
                         /\ startswith(line.title, brand_section)
         IN  IF isTarget
             THEN ScanLines(lines, i + 1, brand_section, TRUE, brand_info)
             ELSE IF in_brand_section /\ line.kind = "heading"
             THEN brand_info
             ELSE IF in_brand_section /\ line.kind = "field"
             THEN ScanLines(lines, i + 1, brand_section, in_brand_section,
                            [k \in DOMAIN brand_info \cup {line.key} |->
                                IF k = line.key THEN line.value ELSE brand_info[k]])
             ELSE ScanLines(lines, i + 1, brand_section, in_brand_section, brand_info)

\* the "  - cmd" items: the empty commands of the split are skipped
RECURSIVE CommandItems(_)
CommandItems(cmds) ==
    IF cmds = <<>> THEN <<>>
    ELSE (IF Head(cmds) # "" THEN << <<"item", Head(cmds)>> >> ELSE <<>>)
         \o CommandItems(Tail(cmds))

\* the suggestions list, in the order the code appends to it
Suggestions(brand_info) ==
    (IF "mode_switch" \in DOMAIN brand_info
     THEN << <<"mode_switch", brand_info["mode_switch"]>> >> ELSE <<>>)
    \o (IF "common_commands" \in DOMAIN brand_info
        THEN << <<"common_commands", "">> >>
             \o CommandItems(brand_info["common_commands"])
        ELSE <<>>)
    \o (IF "config_save" \in DOMAIN brand_info
        THEN << <<"config_save", brand_info["config_save"]>> >> ELSE <<>>)
    \o (IF "special_features" \in DOMAIN brand_info
        THEN << <<"special_features", brand_info["special_features"]>> >> ELSE <<>>)

\* parse_brand_commands: the joined suggestions, or None (the falsy <<>>)
\* (variant: the brand is looked up as given, without lower())
parse_brand_commandsAsGiven(content, brand) ==
    LET brand_section == MappingGet(brand)
    IN  IF ~Truthy(brand_section) THEN <<>>
        ELSE Suggestions(ScanLines(content, 1, brand_section, FALSE, <<>>))
parse_brand_commands(content, brand) ==
    LET brand_section == MappingGet(lower(brand))
    IN  IF ~Truthy(brand_section) THEN <<>>
        ELSE Suggestions(ScanLines(content, 1, brand_section, FALSE, <<>>))

\* get_brand_commands_from_prompt: None when the file is missing or unreadable
get_brand_commands_from_prompt(file, brand) ==
    IF ~file.exists \/ file.unreadable THEN <<>>
    ELSE parse_brand_commands(file.content, brand)

\* the states of SM-CLI.md the tool may find
File(exists, unreadable, content) ==
    [exists |-> exists, unreadable |-> unreadable, content |-> content]

PromptFiles ==
    { File(FALSE, FALSE, <<>>),
      File(TRUE, TRUE, <<>>),
      File(TRUE, FALSE,
           << Text,
              Heading(Title(S_Cisco)),
              Field("command_style", "ios"),
              Field("mode_switch", "enable"),
              Field("common_commands", <<"show version", "", "show vlan">>),
              Heading(Title(S_Arista)),
              Field("config_save", "write memory"),
              Field("special_features", "eAPI") >>),
      File(TRUE, FALSE,
           << Heading(Title(S_Arista)),
              Field("command_style", "eos"),
              Heading(Title(S_Cisco)),
              Text >>) }

\* a call of get_brand_commands_from_prompt taken by itself: its arguments,
\* where it is, the text it read and what it returned
IdleResolve ==
    [pc |-> "idle", file |-> File(FALSE, FALSE, <<>>), brand |-> <<>>,
     content |-> <<>>, result |-> <<>>, raised |-> FALSE]

----------------------------------------------------------------------------
(* Exceptions and the except clauses of the two forward methods              *)

\* base class of each exception class the registry, the parser and paramiko
\* raise ("Exception" is the root of what `except Exception` catches)
ExcParent(c) ==
    CASE c = "BadAuthenticationType"   -> "AuthenticationException"
      [] c = "AuthenticationException" -> "SSHException"
      [] c = "BadHostKeyException"     -> "SSHException"
      [] c = "SSHException"            -> "Exception"
      [] c = "timeout"                 -> "OSError"
      [] c = "OSError"                 -> "Exception"
      [] c = "AttributeError"          -> "Exception"
      [] c = "OperationalError"        -> "DatabaseError"
      [] c = "IntegrityError"          -> "DatabaseError"
      [] c = "DatabaseError"           -> "sqlite3.Error"
      [] c = "sqlite3.Error"           -> "Exception"
      [] OTHER                         -> "BaseException"

RECURSIVE IsInstance(_, _)
IsInstance(c, cls) ==
    \/ c = cls
    \/ c # "BaseException" /\ IsInstance(ExcParent(c), cls)

\* what connect, exec_command and the two read() calls may raise
ConnectRaises == {"BadAuthenticationType", "SSHException", "timeout"}
ExecRaises    == {"SSHException"}
ReadRaises    == {"timeout"}

\* the except clauses of SSHCommandTool.forward, in source order
Clause(cls, kind) == [cls |-> cls, kind |-> kind]

\* (variants: the subtype clause after its base class; no catch-all clause)
ForwardExceptSubtypeLast ==
    << Clause("SSHException", "TransportError"),
       Clause("AuthenticationException", "AuthenticationFailed"),
       Clause("Exception", "Unknown") >>
ForwardExceptNoCatchAll ==
    << Clause("AuthenticationException", "AuthenticationFailed"),
       Clause("SSHException", "TransportError") >>
ForwardExcept ==
    << Clause("AuthenticationException", "AuthenticationFailed"),
       Clause("SSHException", "TransportError"),
       Clause("Exception", "Unknown") >>

\* the except clauses of SSHTestTool.forward, in source order
\* (variant: no clause for AuthenticationException)
ProbeExceptNoAuthClause ==
    << Clause("SSHException", "TransportError"),
       Clause("Exception", "Unknown") >>
ProbeExcept ==
    << Clause("AuthenticationException", "AuthenticationFailed"),
       Clause("SSHException", "TransportError"),
       Clause("Exception", "Unknown") >>

\* the first clause that matches handles the exception; with none it escapes
Handle(clauses, exc) ==
    IF \E i \in DOMAIN clauses : IsInstance(exc, clauses[i].cls)
    THEN clauses[CHOOSE i \in DOMAIN clauses :
                    /\ IsInstance(exc, clauses[i].cls)
                    /\ \A j \in 1..(i - 1) : ~IsInstance(exc, clauses[j].cls)].kind
    ELSE "escapes"

----------------------------------------------------------------------------
(* The values the forward methods return                                     *)

NoResult ==
    [kind |-> "none", host |-> <<>>, port |-> 0, username |-> <<>>,
     brand |-> <<>>, suggestions |-> <<>>, stdout |-> <<>>, stderr |-> <<>>,
     exc |-> ""]

\* the "not found in the database" message
DeviceNotFound(host) == [NoResult EXCEPT !.kind = "DeviceNotFound", !.host = host]

\* the two messages of the empty-command branch
Suggest(host, brand, brand_suggestions) ==
    IF Truthy(brand_suggestions)
    THEN [NoResult EXCEPT !.kind = "Suggestion", !.host = host,
                          !.brand = upper(brand),
                          !.suggestions = brand_suggestions]
    ELSE [NoResult EXCEPT !.kind = "GenericSuggestion", !.host = host,
                          !.brand = brand]

\* bytes.decode(errors="ignore"): the undecodable bytes are dropped
decode(bytes) == SelectSeq(bytes, LAMBDA b : b # BadByte)

\* the result of a command that ran: both streams, or the tagged stdout
\* (variant: the tag keeps the lower-cased brand)
PackageLowerTag(brand, result, error) ==
    IF Truthy(error)
    THEN [NoResult EXCEPT !.kind = "OutputAndError", !.stdout = result,
                          !.stderr = error]
    ELSE [NoResult EXCEPT !.kind = "TaggedOutput", !.brand = brand,
                          !.stdout = result]
Package(brand, result, error) ==
    IF Truthy(error)
    THEN [NoResult EXCEPT !.kind = "OutputAndError", !.stdout = result,
                          !.stderr = error]
    ELSE [NoResult EXCEPT !.kind = "TaggedOutput", !.brand = upper(brand),
                          !.stdout = result]

\* the message of an except clause
Failure(kind, exc) == [NoResult EXCEPT !.kind = kind, !.exc = exc]

\* the success message of the connectivity test
ProbeSuccess(host, port, username, brand) ==
    [NoResult EXCEPT !.kind = "ProbeSuccess", !.host = host, !.port = port,
                     !.username = username, !.brand = upper(brand)]

\* SessionResult.errorKind of a returned value
ErrorKind(r) ==
    IF r.kind \in {"DeviceNotFound", "AuthenticationFailed", "TransportError", "Unknown"}
    THEN r.kind ELSE "None"

----------------------------------------------------------------------------
(* The state                                                                 *)

\* devices : the rows of the devices table
\* dbret   : the last add/update/delete of the command loop and its result
\* call    : the forward invocation in progress or last finished
\* calls   : the paramiko calls that invocation has made, in order
\* ret     : how the last finished invocation ended

IdleCall ==
    [tool |-> "none", pc |-> "idle", host |-> <<>>, arg_username |-> <<>>,
     arg_password |-> <<>>, command |-> <<>>, port |-> DefaultPort,
     registered |-> FALSE, device_info |-> {}, reads |-> 0,
     connected |-> FALSE,
     username |-> <<>>,
     password |-> <<>>, brand |-> <<>>, raw_out |-> <<>>, raw_err |-> <<>>]

\* a registry call, what it returned, and the rows of its host before it;
\* also whether the storage layer raised in it, the table before it, and for
\* the reading operations the keyword and the rows returned
DbRet(op, host, username, password, brand, ok, old) ==
    [op |-> op, host |-> host, username |-> username, password |-> password,
     brand |-> brand, ok |-> ok, old |-> old,
     failed |-> FALSE, raised |-> FALSE, before |-> {}, keyword |-> <<>>,
     rows |-> <<>>, omitted |-> FALSE]

NoRet == [status |-> "none", value |-> NoResult]

----------------------------------------------------------------------------
(* The sqlite file the DeviceDatabase methods share.  Every method opens its *)
(* own connection; a writing statement takes the one write lock of the file  *)
(* and keeps its change to itself until commit; a SELECT holds a read lock   *)
(* while its cursor is open; commit waits for the read locks of the others.  *)

\* the callers that use the registry at the same time, and the tools' call
Sessions == {"cli1", "cli2"}
Engine == "engine"

NoOp == [op |-> "none", host |-> <<>>, username |-> <<>>, password |-> <<>>,
         brand |-> <<>>]
IdleTxn == [pc |-> "idle", op |-> NoOp, pending |-> {}, ok |-> FALSE,
            snapshot |-> {}]

\* reserved: the connection holding the write lock; shared: the connections
\* holding a read lock; txn: each caller's open method call; log: the
\* committed writes in commit order
InitSq ==
    [reserved |-> "none", shared |-> {}, txn |-> [p \in Sessions |-> IdleTxn],
     log |-> <<>>]

\* cursor.execute of an INSERT, UPDATE or DELETE gets the write lock unless
\* another connection has it
\* (variant: no write lock)
CanReserveAlways(s, p) == TRUE
CanReserve(s, p) == s.reserved \in {"none", p}

\* conn.commit() needs the file to itself: no other connection reading
CanCommit(s, p) == s.shared \ {p} = {}

\* cursor.execute of a SELECT takes a read lock
AcquireShared(s, p) == [s EXCEPT !.shared = @ \cup {p}]

\* the method returns: cursor and conn are dropped and the read lock goes
\* (variant: the connection is kept with its cursor open)
ReleaseSharedNever(s, p) == s
ReleaseShared(s, p) == [s EXCEPT !.shared = @ \ {p}]

\* the table a SELECT reads: what has been committed
Visible(s, table) == table

----------------------------------------------------------------------------
(* The state after construction                                              *)

Ports == {DefaultPort, 2222}

Init ==
    /\ devices = {}
    /\ dbret = DbRet("none", <<>>, <<>>, <<>>, <<>>, FALSE, {})
    /\ call = IdleCall
    /\ calls = <<>>
    /\ ret = NoRet
    /\ sq = InitSq
    /\ rs = IdleResolve

----------------------------------------------------------------------------
(* DeviceDatabase operations; each is one sqlite transaction.  An operation  *)
(* gives the table it leaves and the value it returns; when the storage      *)
(* layer raises, the transaction is rolled back and False is returned.       *)

\* (variant: a record that exists keeps its brand when none is given)
add_deviceMerging(table, host, username, password, brand, fails) ==
    IF fails
    THEN [table |-> table, ok |-> FALSE]
    ELSE [table |-> InsertOrReplace(table,
                       Row(host, username, password,
                           IF brand = S_Unknown /\ SelectByHost(table, host) # {}
                           THEN (CHOOSE r \in SelectByHost(table, host) : TRUE).brand
                           ELSE brand)),
          ok |-> TRUE]
add_device(table, host, username, password, brand, fails) ==
    IF fails
    THEN [table |-> table, ok |-> FALSE]
    ELSE [table |-> InsertOrReplace(table, Row(host, username, password, brand)),
          ok |-> TRUE]

\* `if not updates: return False`, else the UPDATE and rowcount > 0
\* (variant: a host with no record gets one made of the fields given)
update_deviceUpserting(table, host, username, password, brand, fails) ==
    IF fails \/ ~(Truthy(username) \/ Truthy(password) \/ Truthy(brand))
    THEN [table |-> table, ok |-> FALSE]
    ELSE IF SelectByHost(table, host) = {}
    THEN [table |-> table \cup {Row(host, username, password, brand)},
          ok |-> TRUE]
    ELSE [table |-> {IF r.host = host
                     THEN UpdatedRow(r, username, password, brand)
                     ELSE r : r \in table},
          ok |-> TRUE]
update_device(table, host, username, password, brand, fails) ==
    IF fails \/ ~(Truthy(username) \/ Truthy(password) \/ Truthy(brand))
    THEN [table |-> table, ok |-> FALSE]
    ELSE [table |-> {IF r.host = host
                     THEN UpdatedRow(r, username, password, brand)
                     ELSE r : r \in table},
          ok |-> Cardinality(SelectByHost(table, host)) > 0]

\* the DELETE and rowcount > 0
\* (variant: True whenever the DELETE ran)
delete_deviceAlwaysTrue(table, host, fails) ==
    IF fails
    THEN [table |-> table, ok |-> FALSE]
    ELSE [table |-> table \ SelectByHost(table, host), ok |-> TRUE]
delete_device(table, host, fails) ==
    IF fails
    THEN [table |-> table, ok |-> FALSE]
    ELSE [table |-> table \ SelectByHost(table, host),
          ok |-> Cardinality(SelectByHost(table, host)) > 0]

\* the BINARY collation of ORDER BY host: the characters in code point order
Collation ==
    << "%", "-", ".", "0", "1", "2", "3", "4", "5", "6", "7", "8", "9" >>
    \o UpperAlpha \o << "_" >> \o LowerAlpha

CodeOrder(c) == CHOOSE i \in DOMAIN Collation : Collation[i] = c

\* a < b as sqlite compares two TEXT values
RECURSIVE StrLess(_, _)
StrLess(a, b) ==
    IF b = <<>> THEN FALSE
    ELSE IF a = <<>> THEN TRUE
    ELSE IF a[1] = b[1] THEN StrLess(Tail(a), Tail(b))
    ELSE CodeOrder(a[1]) < CodeOrder(b[1])

\* ORDER BY host, then fetchall(): the rows as a list
RECURSIVE OrderByHost(_)
OrderByHost(rows) ==
    IF rows = {} THEN <<>>
    ELSE LET m == CHOOSE r \in rows :
                    \A q \in rows \ {r} : StrLess(r.host, q.host)
         IN  <<m>> \o OrderByHost(rows \ {m})

\* s LIKE pattern as sqlite evaluates it: % is any run of characters, _ is
\* any one character, and ASCII letters match without regard to case
RECURSIVE Like(_, _)
Like(pattern, s) ==
    IF pattern = <<>> THEN s = <<>>
    ELSE IF pattern[1] = "%"
         THEN Like(Tail(pattern), s) \/ (s # <<>> /\ Like(pattern, Tail(s)))
    ELSE IF s = <<>> THEN FALSE
    ELSE /\ pattern[1] = "_" \/ LowerChar(pattern[1]) = LowerChar(s[1])
         /\ Like(Tail(pattern), Tail(s))

\* f'%{keyword}%'
LikePattern(keyword) == <<"%">> \o keyword \o <<"%">>

\* SELECT * FROM devices ORDER BY host
list_devices(table, fails) ==
    IF fails THEN <<>> ELSE OrderByHost(table)

\* SELECT * FROM devices WHERE host LIKE ? OR username LIKE ? ORDER BY host
search_devices(table, keyword, fails) ==
    IF fails THEN <<>>
    ELSE OrderByHost({r \in table : \/ Like(LikePattern(keyword), r.host)
                                    \/ Like(LikePattern(keyword), r.username)})

\* what the storage layer raises when it fails
StorageError == "OperationalError"

\* the `except Exception` of every DeviceDatabase method
\* (variant: only the constraint violation is caught)
RegistryExceptIntegrityOnly == << Clause("IntegrityError", "caught") >>
RegistryExcept == << Clause("Exception", "caught") >>

\* does the failure of the storage layer leave the method as an exception
RegistryRaises(fails) ==
    fails /\ Handle(RegistryExcept, StorageError) = "escapes"

\* add_device called without a brand, and the default the parameter has
Omitted == << "<omitted>" >>
BrandArg(brand) == IF brand = Omitted THEN S_Unknown ELSE brand

\* the operations as the command loop calls them: dbret keeps the call and
\* what it returned
AddDevice(host, username, password, brand, fails) ==
    LET b == BrandArg(brand)
        r == add_device(devices, host, username, password, b, fails)
    IN  /\ devices' = r.table
        /\ dbret' = [DbRet("add_device", host, username, password, b, r.ok,
                         SelectByHost(devices, host))
                      EXCEPT !.failed = fails, !.raised = RegistryRaises(fails),
                             !.before = devices, !.omitted = (brand = Omitted)]
        /\ UNCHANGED <<call, calls, ret, sq, rs>>

UpdateDevice(host, username, password, brand, fails) ==
    LET r == update_device(devices, host, username, password, brand, fails)
    IN  /\ devices' = r.table
        /\ dbret' = [DbRet("update_device", host, username, password, brand, r.ok,
                         SelectByHost(devices, host))
                      EXCEPT !.failed = fails, !.raised = RegistryRaises(fails),
                             !.before = devices]
        /\ UNCHANGED <<call, calls, ret, sq, rs>>

DeleteDevice(host, fails) ==
    LET r == delete_device(devices, host, fails)
    IN  /\ devices' = r.table
        /\ dbret' = [DbRet("delete_device", host, <<>>, <<>>, <<>>, r.ok,
                         SelectByHost(devices, host))
                      EXCEPT !.failed = fails, !.raised = RegistryRaises(fails),
                             !.before = devices]
        /\ UNCHANGED <<call, calls, ret, sq, rs>>

\* /device_info, /list_devices and /search_device: the rows they are given
GetDevice(host, fails) ==
    /\ dbret' = [DbRet("get_device", host, <<>>, <<>>, <<>>, FALSE,
                       SelectByHost(devices, host))
                 EXCEPT !.failed = fails, !.raised = RegistryRaises(fails),
                        !.before = devices,
                        !.rows = OrderByHost(get_device(devices, host, fails))]
    /\ devices' = get_deviceLeaves(devices, host, fails)
    /\ UNCHANGED <<call, calls, ret, sq, rs>>

ListDevices(fails) ==
    /\ dbret' = [DbRet("list_devices", <<>>, <<>>, <<>>, <<>>, FALSE, {})
                 EXCEPT !.failed = fails, !.raised = RegistryRaises(fails),
                        !.before = devices,
                        !.rows = list_devices(devices, fails)]
    /\ UNCHANGED <<devices, call, calls, ret, sq, rs>>

SearchDevices(keyword, fails) ==
    /\ dbret' = [DbRet("search_devices", <<>>, <<>>, <<>>, <<>>, FALSE, {})
                 EXCEPT !.failed = fails, !.raised = RegistryRaises(fails),
                        !.before = devices, !.keyword = keyword,
                        !.rows = search_devices(devices, keyword, fails)]
    /\ UNCHANGED <<devices, call, calls, ret, sq, rs>>

\* the same operations run by another caller while a forward is in
\* progress; their return values go to that caller
WriterAdd(host, username, password, brand) ==
    /\ CanReserve(sq, "writer") /\ CanCommit(sq, "writer")
    /\ devices' = add_device(devices, host, username, password, brand, FALSE).table
    /\ UNCHANGED <<dbret, call, calls, ret, sq, rs>>

\* /update_brand: update_device(host, brand=brand)
WriterUpdateBrand(host, brand) ==
    /\ CanReserve(sq, "writer") /\ CanCommit(sq, "writer")
    /\ devices' = update_device(devices, host, <<>>, <<>>, brand, FALSE).table
    /\ UNCHANGED <<dbret, call, calls, ret, sq, rs>>

WriterDelete(host) ==
    /\ CanReserve(sq, "writer") /\ CanCommit(sq, "writer")
    /\ devices' = delete_device(devices, host, FALSE).table
    /\ UNCHANGED <<dbret, call, calls, ret, sq, rs>>

\* the same methods called by two callers at once, statement by statement.
\* A writing method: connect, execute (write lock, change kept pending),
\* commit (the change becomes the table), return rowcount > 0 or True.
Op(op, host, username, password, brand) ==
    [op |-> op, host |-> host, username |-> username, password |-> password,
     brand |-> brand]

ApplyOp(table, o, fails) ==
    CASE o.op = "add_device" ->
            add_device(table, o.host, o.username, o.password, o.brand, fails)
      [] o.op = "update_device" ->
            update_device(table, o.host, o.username, o.password, o.brand, fails)
      [] o.op = "delete_device" -> delete_device(table, o.host, fails)
      [] OTHER -> [table |-> table, ok |-> FALSE]

\* the length the log of committed writes is cut off at
MaxLog == 3

\* cursor.execute(INSERT / UPDATE / DELETE): with the write lock the change
\* is pending; without it sqlite raises "database is locked", which the
\* method catches
ConcExecute(p, o) ==
    /\ sq.txn[p].pc = "idle"
    /\ Len(sq.log) < MaxLog
    /\ IF CanReserve(sq, p)
       THEN LET r == ApplyOp(Visible(sq, devices), o, FALSE)
            IN  sq' = [sq EXCEPT !.reserved = p,
                                 !.txn[p] = [IdleTxn EXCEPT !.pc = "executed",
                                                            !.op = o,
                                                            !.pending = r.table,
                                                            !.ok = r.ok]]
       ELSE sq' = [sq EXCEPT !.txn[p] = [IdleTxn EXCEPT !.pc = "failed"]]
    /\ UNCHANGED <<devices, dbret, call, calls, ret, rs>>

\* conn.commit(): the pending change becomes the table and the write lock
\* goes; while another connection reads, commit raises "database is locked"
\* and leaving the `with` rolls the change back
ConcCommit(p) ==
    /\ sq.txn[p].pc = "executed"
    /\ IF CanCommit(sq, p)
       THEN /\ devices' = sq.txn[p].pending
            /\ sq' = [sq EXCEPT !.reserved = "none",
                                !.txn[p] = IdleTxn,
                                !.log = Append(@, [op |-> sq.txn[p].op,
                                                   ok |-> sq.txn[p].ok])]
       ELSE /\ devices' = devices
            /\ sq' = [sq EXCEPT !.reserved = "none",
                                !.txn[p] = [IdleTxn EXCEPT !.pc = "failed"]]
    /\ UNCHANGED <<dbret, call, calls, ret, rs>>

\* the except clause: False is returned
ConcReturnFalse(p) ==
    /\ sq.txn[p].pc = "failed"
    /\ sq' = [sq EXCEPT !.txn[p] = IdleTxn]
    /\ UNCHANGED <<devices, dbret, call, calls, ret, rs>>

\* cursor.execute(SELECT ...) of get_device, list_devices, search_devices
ConcSelect(p) ==
    /\ sq.txn[p].pc = "idle"
    /\ sq' = [AcquireShared(sq, p)
                EXCEPT !.txn[p] = [IdleTxn EXCEPT !.pc = "reading",
                                                  !.snapshot = Visible(sq, devices)]]
    /\ UNCHANGED <<devices, dbret, call, calls, ret, rs>>

\* fetchone() / fetchall() and the return
ConcFetch(p) ==
    /\ sq.txn[p].pc = "reading"
    /\ sq' = [ReleaseShared(sq, p) EXCEPT !.txn[p] = IdleTxn]
    /\ UNCHANGED <<devices, dbret, call, calls, ret, rs>>

----------------------------------------------------------------------------
(* SSHCommandTool.forward                                                    *)

\* `if not device_info`
\* (variant: the check left out)
DeviceMissingNever(device_info) == FALSE
DeviceMissing(device_info) == device_info = {}

\* device_info.get(key, default) on the dict of the row
DictGet(row, key, default) == IF key \in DOMAIN row THEN row[key] ELSE default

\* username = username or device_info.get("username", "admin")
\* password = password or device_info.get("password", "")
\* (variant: a caller's username brings the caller's password with it)
ResolveCredentialsAllOrNothing(username, password, row) ==
    IF Truthy(username)
    THEN [username |-> username, password |-> password]
    ELSE [username |-> DictGet(row, "username", S_admin),
          password |-> Or(password, DictGet(row, "password", S_empty))]
ResolveCredentials(username, password, row) ==
    [username |-> Or(username, DictGet(row, "username", S_admin)),
     password |-> Or(password, DictGet(row, "password", S_empty))]

\* brand = device_info.get("brand", "Unknown").lower()
ResolveBrand(row) == lower(DictGet(row, "brand", S_Unknown))

\* `if not command`
\* (variant: the check left out)
CommandEmptyNever(command) == FALSE
CommandEmpty(command) == ~Truthy(command)

\* the text handed to ssh.exec_command
\* (variant: enable sent first to the brands that need it)
CommandTextWithEnable(command, brand) ==
    IF brand \in {lower(S_Cisco), lower(S_Arista)}
    THEN S_enable \o <<"\n">> \o command
    ELSE command
CommandText(command, brand) == command

ConnectCall(host, port, username, password) ==
    [op |-> "connect", host |-> host, port |-> port, username |-> username,
     password |-> password, timeout |-> ConnectTimeout, command |-> <<>>]
ExecCall(command) ==
    [op |-> "exec_command", host |-> <<>>, port |-> 0, username |-> <<>>,
     password |-> <<>>, timeout |-> 0, command |-> command]
CloseCall ==
    [op |-> "close", host |-> <<>>, port |-> 0, username |-> <<>>,
     password |-> <<>>, timeout |-> 0, command |-> <<>>]

\* the connect of the invocation c: host and port are the arguments, username
\* and password the locals set after the lookup; the table is not read again
\* (variant: the credentials are resolved again from the table as it is now)
ConnectRereading(c, table) ==
    LET now == SelectByHost(table, c.host)
        row == CHOOSE r \in now : TRUE
    IN  IF now = {}
        THEN ConnectCall(c.host, c.port, c.username, c.password)
        ELSE ConnectCall(c.host, c.port, Or(c.arg_username, row.username),
                         Or(c.arg_password, row.password))
ConnectFromLocals(c, table) ==
    ConnectCall(c.host, c.port, c.username, c.password)

\* the invocation c ends: a value is returned, or the exception escapes
Return(c, value) ==
    /\ ret' = [status |-> "returned", value |-> value]
    /\ call' = [c EXCEPT !.pc = "idle"]

\* (variant: the failed call is made again instead of reported)
RaiseRetryConnect(c, clauses, exc) ==
    /\ call' = [c EXCEPT !.pc = "connect"]
    /\ ret' = ret
Raise(c, clauses, exc) ==
    LET kind == Handle(clauses, exc)
    IN  IF kind = "escapes"
        THEN /\ ret' = [status |-> "raised", value |-> Failure("escapes", exc)]
             /\ call' = [c EXCEPT !.pc = "idle"]
        ELSE Return(c, Failure(kind, exc))

\* the tool is called
ExecuteCall(host, username, password, command, port) ==
    /\ call.pc = "idle"
    /\ call' = [IdleCall EXCEPT !.tool = "execute", !.pc = "lookup",
                                !.host = host, !.arg_username = username,
                                !.arg_password = password,
                                !.command = command, !.port = port]
    /\ calls' = <<>>
    /\ ret' = NoRet
    /\ UNCHANGED <<devices, dbret, sq, rs>>

\* lines 165-186: the lookup, the resolution and the empty-command branch
ExecuteLookup(fails, file) ==
    /\ call.tool = "execute" /\ call.pc = "lookup"
    /\ LET device_info == get_device(devices, call.host, fails)
           seen == [call EXCEPT !.registered = SelectByHost(devices, call.host) # {},
                                !.device_info = device_info,
                                !.reads = @ + 1]
       IN  IF DeviceMissing(device_info)
           THEN Return(seen, DeviceNotFound(call.host))
           ELSE IF device_info = {}
           THEN \* None.get raises AttributeError
                Raise(seen, ForwardExcept, "AttributeError")
           ELSE LET row == CHOOSE r \in device_info : TRUE
                    creds == ResolveCredentials(call.arg_username,
                                                call.arg_password, row)
                    brand == ResolveBrand(row)
                    resolved == [seen EXCEPT !.username = creds.username,
                                             !.password = creds.password,
                                             !.brand = brand]
                IN  IF CommandEmpty(call.command)
                    THEN Return(resolved, Suggest(call.host, brand,
                                    get_brand_commands_from_prompt(file, brand)))
                    ELSE /\ call' = [resolved EXCEPT !.pc = "connect"]
                         /\ ret' = ret
    /\ sq' = ReleaseShared(AcquireShared(sq, Engine), Engine)
    /\ devices' = get_deviceLeaves(devices, call.host, fails)
    /\ UNCHANGED <<dbret, calls, rs>>

\* line 192: ssh.connect(host, port, username, password, timeout=10)
ExecuteConnect(outcome) ==
    /\ call.tool = "execute" /\ call.pc = "connect"
    /\ calls' = Append(calls, ConnectFromLocals(call, devices))
    /\ IF outcome = "ok"
       THEN /\ call' = [call EXCEPT !.pc = "exec", !.connected = TRUE]
            /\ ret' = ret
       ELSE Raise(call, ForwardExcept, outcome)
    /\ UNCHANGED <<devices, dbret, sq, rs>>

\* line 194: ssh.exec_command(command)
ExecuteExecCommand(outcome) ==
    /\ call.tool = "execute" /\ call.pc = "exec"
    /\ calls' = Append(calls, ExecCall(CommandText(call.command, call.brand)))
    /\ IF outcome = "ok"
       THEN /\ call' = [call EXCEPT !.pc = "read"]
            /\ ret' = ret
       ELSE Raise(call, ForwardExcept, outcome)
    /\ UNCHANGED <<devices, dbret, sq, rs>>

\* lines 195-204: both streams are read and decoded, the session is closed
\* and the result is packaged; a read that raises skips the close
ExecuteRead(out, err, outcome) ==
    /\ call.tool = "execute" /\ call.pc = "read"
    /\ IF outcome = "ok"
       THEN /\ calls' = Append(calls, CloseCall)
            /\ Return([call EXCEPT !.raw_out = out, !.raw_err = err],
                      Package(call.brand, decode(out), decode(err)))
       ELSE /\ calls' = calls
            /\ Raise(call, ForwardExcept, outcome)
    /\ UNCHANGED <<devices, dbret, sq, rs>>

----------------------------------------------------------------------------
(* SSHTestTool.forward                                                       *)

ProbeCall(host, username, password, port) ==
    /\ call.pc = "idle"
    /\ call' = [IdleCall EXCEPT !.tool = "probe", !.pc = "lookup",
                                !.host = host, !.arg_username = username,
                                !.arg_password = password, !.port = port]
    /\ calls' = <<>>
    /\ ret' = NoRet
    /\ UNCHANGED <<devices, dbret, sq, rs>>

\* lines 236-248: the lookup and the resolution (the brand keeps its case)
ProbeLookup(fails) ==
    /\ call.tool = "probe" /\ call.pc = "lookup"
    /\ LET device_info == get_device(devices, call.host, fails)
           seen == [call EXCEPT !.registered = SelectByHost(devices, call.host) # {},
                                !.device_info = device_info,
                                !.reads = @ + 1]
       IN  IF device_info = {}
           THEN Return(seen, DeviceNotFound(call.host))
           ELSE LET row == CHOOSE r \in device_info : TRUE
                    username == Or(call.arg_username, DictGet(row, "username", S_admin))
                    password == Or(call.arg_password, DictGet(row, "password", S_empty))
                    brand == DictGet(row, "brand", S_Unknown)
                IN  /\ call' = [seen EXCEPT !.pc = "connect",
                                            !.username = username,
                                            !.password = password,
                                            !.brand = brand]
                    /\ ret' = ret
    /\ sq' = ReleaseShared(AcquireShared(sq, Engine), Engine)
    /\ devices' = get_deviceLeaves(devices, call.host, fails)
    /\ UNCHANGED <<dbret, calls, rs>>

\* the paramiko calls of a connectivity test whose connect succeeded
\* (variant: a command is run before the close)
ProbeSessionWithCommand == <<ExecCall(S_show), CloseCall>>
ProbeSession == <<CloseCall>>

\* lines 254-283: connect, close at once, report
ProbeConnect(outcome) ==
    /\ call.tool = "probe" /\ call.pc = "connect"
    /\ LET connect == ConnectFromLocals(call, devices)
       IN  IF outcome = "ok"
           THEN /\ calls' = Append(calls, connect) \o ProbeSession
                /\ Return([call EXCEPT !.connected = TRUE],
                          ProbeSuccess(call.host, call.port,
                                       call.username, call.brand))
           ELSE /\ calls' = Append(calls, connect)
                /\ Raise(call, ProbeExcept, outcome)
    /\ UNCHANGED <<devices, dbret, sq, rs>>

----------------------------------------------------------------------------
(* The brand resolver called by itself                                       *)

\* the `except Exception` of get_brand_commands_from_prompt
ResolverExcept == << Clause("Exception", "None") >>

ResolveCall(file, brand) ==
    /\ rs.pc \in {"idle", "done"}
    /\ rs' = [IdleResolve EXCEPT !.pc = "read", !.file = file, !.brand = brand]
    /\ UNCHANGED <<devices, dbret, call, calls, ret, sq>>

\* lines 67-72: no file gives None; open() or read() raising is caught and
\* gives None; else the text is read
ResolveRead ==
    /\ rs.pc = "read"
    /\ IF ~rs.file.exists
       THEN rs' = [rs EXCEPT !.pc = "done"]
       ELSE IF rs.file.unreadable
       THEN rs' = [rs EXCEPT !.pc = "done",
                             !.raised = Handle(ResolverExcept, "OSError") = "escapes"]
       ELSE rs' = [rs EXCEPT !.pc = "parse", !.content = rs.file.content]
    /\ UNCHANGED <<devices, dbret, call, calls, ret, sq>>

\* lines 75-76: parse_brand_commands(content, brand) is returned
ResolveParse ==
    /\ rs.pc = "parse"
    /\ rs' = [rs EXCEPT !.pc = "done",
                        !.result = parse_brand_commands(rs.content, rs.brand)]
    /\ UNCHANGED <<devices, dbret, call, calls, ret, sq>>

----------------------------------------------------------------------------
(* The specification                                                         *)

\* the keywords searched for: none, a digit of a host, letters of a user
\* name, letters in the other case, and one holding a LIKE wildcard
Keywords == { S_empty, <<"1">>, <<"d", "m">>, <<"S", "W">>, <<"s", "_", "1">> }

Registry ==
    \/ \E h \in Hosts, u \in RegUsernames, p \in RegPasswords,
          b \in RegBrands \cup {Omitted}, fails \in BOOLEAN :
          AddDevice(h, u, p, b, fails)
    \/ \E h \in Hosts, u \in RegUsernames, p \in RegPasswords,
          b \in RegBrands \cup {S_empty}, fails \in BOOLEAN :
          UpdateDevice(h, u, p, b, fails)
    \/ \E h \in Hosts, fails \in BOOLEAN : DeleteDevice(h, fails)
    \/ \E h \in Hosts, fails \in BOOLEAN : GetDevice(h, fails)
    \/ \E fails \in BOOLEAN : ListDevices(fails)
    \/ \E k \in Keywords, fails \in BOOLEAN : SearchDevices(k, fails)

\* the records the concurrent writer registers
WriterRecords == { <<S_admin, S_secret, S_Arista>>, <<S_empty, S_empty, S_ZTE>> }

Writer ==
    \/ \E h \in Hosts, r \in WriterRecords : WriterAdd(h, r[1], r[2], r[3])
    \/ \E h \in Hosts, b \in RegBrands : WriterUpdateBrand(h, b)
    \/ \E h \in Hosts : WriterDelete(h)

Execute ==
    \/ \E h \in Hosts, u \in ArgUsernames, p \in ArgPasswords,
          c \in Commands, port \in Ports : ExecuteCall(h, u, p, c, port)
    \/ \E fails \in BOOLEAN, file \in PromptFiles : ExecuteLookup(fails, file)
    \/ \E outcome \in {"ok"} \cup ConnectRaises : ExecuteConnect(outcome)
    \/ \E outcome \in {"ok"} \cup ExecRaises : ExecuteExecCommand(outcome)
    \/ \E out \in Outputs, err \in Errors, outcome \in {"ok"} \cup ReadRaises :
          ExecuteRead(out, err, outcome)

Probe ==
    \/ \E h \in Hosts, u \in ArgUsernames, p \in ArgPasswords, port \in Ports :
          ProbeCall(h, u, p, port)
    \/ \E fails \in BOOLEAN : ProbeLookup(fails)
    \/ \E outcome \in {"ok"} \cup ConnectRaises : ProbeConnect(outcome)

\* the writes the two callers make at the same time
ConcOps ==
    { Op("add_device", S_sw1, S_admin, S_secret, S_Arista),
      Op("add_device", S_sw1, S_empty, S_empty, S_ZTE),
      Op("add_device", S_sw2, S_admin, S_secret, S_Arista),
      Op("update_device", S_sw1, <<>>, <<>>, S_ZTE),
      Op("update_device", S_sw1, S_root, S_pw, <<>>),
      Op("delete_device", S_sw1, <<>>, <<>>, <<>>) }

Concurrent ==
    \/ \E p \in Sessions, o \in ConcOps : ConcExecute(p, o)
    \/ \E p \in Sessions : ConcCommit(p)
    \/ \E p \in Sessions : ConcReturnFalse(p)
    \/ \E p \in Sessions : ConcSelect(p)
    \/ \E p \in Sessions : ConcFetch(p)

\* the two tools, with the registry written concurrently
Next == Writer \/ Execute \/ Probe

Spec == Init /\ [][Next]_vars

\* the registry alone, each operation's return value observed
RegistryNext == Registry

RegistrySpec == Init /\ [][RegistryNext]_vars

\* the registry used by two callers at once
ConcurrentNext == Concurrent

\* the brands the resolver is asked about: recognized ones in three
\* casings, one with no section in any file, and unrecognized ones
ResolverBrands ==
    { S_Cisco, lower(S_Cisco), upper(S_Cisco),
      S_Arista, lower(S_Arista), upper(S_Arista),
      <<"H","3","C">>, <<"h","3","c">>,
      S_ZTE, lower(S_ZTE), S_Unknown, lower(S_Unknown), S_empty }

Resolver ==
    \/ \E file \in PromptFiles, brand \in ResolverBrands : ResolveCall(file, brand)
    \/ ResolveRead
    \/ ResolveParse

ResolverNext == Resolver

ResolverSpec == Init /\ [][ResolverNext]_vars

ConcurrentSpec == Init /\ [][ConcurrentNext]_vars

----------------------------------------------------------------------------
(* Properties                                                                *)

\* an invocation of the tool has finished
Finished(tool) == call.tool = tool /\ call.pc = "idle"

\* an invocation of the tool is past its registry lookup
PastLookup(tool) == call.tool = tool /\ call.pc # "lookup"

\* how many calls of one kind the invocation made on the transport
Count(op) == Cardinality({i \in DOMAIN calls : calls[i].op = op})

\* the row the lookup returned
Snapshot == CHOOSE r \in call.device_info : TRUE

\* C1: an execute whose connect succeeded has closed the session exactly once
\* by the time it finishes, whichever way it finishes.
C1_ClosedExactlyOnce ==
    (Finished("execute") /\ call.connected) => Count("close") = 1

\* C2: an execute on a host with no registry record returns DeviceNotFound and
\* makes no transport call, whatever username, password and command it is given.
C2_MissingDevice ==
    (PastLookup("execute") /\ ~call.registered) =>
        /\ call.pc = "idle"
        /\ ret.status = "returned"
        /\ ret.value.kind = "DeviceNotFound"
        /\ calls = <<>>

C2_Witness ==
    /\ Finished("execute") /\ ~call.registered
    /\ call.arg_username = S_root /\ call.arg_password = S_pw
    /\ call.command = S_show
    /\ devices # {}
    /\ ret.value.kind = "DeviceNotFound"

\* C3: with a record (u_r, p_r) found and a non-empty command, connect gets the
\* caller's username if it is non-empty and u_r otherwise, and independently
\* the caller's password if it is non-empty and p_r otherwise.
C3_CredentialPrecedence ==
    \A i \in DOMAIN calls :
        (call.tool = "execute" /\ calls[i].op = "connect") =>
            /\ call.device_info # {}
            /\ call.command # <<>>
            /\ calls[i].username = IF call.arg_username # <<>>
                                   THEN call.arg_username
                                   ELSE Snapshot.username
            /\ calls[i].password = IF call.arg_password # <<>>
                                   THEN call.arg_password
                                   ELSE Snapshot.password

C3_Witness ==
    /\ call.tool = "execute" /\ Count("connect") = 1
    /\ call.arg_username = S_root /\ call.arg_password = <<>>
    /\ Snapshot.username = S_admin /\ Snapshot.password = S_secret
    /\ calls[1].username = S_root /\ calls[1].password = S_secret

\* C4: an execute with an empty command on a host whose record was found makes
\* no transport call and returns a suggestion, which is not an error and is
\* not empty, with or without profile data for the brand.
C4_EmptyCommandSuggests ==
    (PastLookup("execute") /\ call.device_info # {} /\ call.command = <<>>) =>
        /\ call.pc = "idle"
        /\ calls = <<>>
        /\ ret.status = "returned"
        /\ ret.value.kind \in {"Suggestion", "GenericSuggestion"}
        /\ ErrorKind(ret.value) = "None"
        /\ ret.value.kind = "Suggestion" => ret.value.suggestions # <<>>

C4_Witness ==
    /\ Finished("execute") /\ call.command = <<>>
    /\ ret.value.kind = "Suggestion"
    /\ ret.value.brand = upper(S_Arista)
    /\ calls = <<>>

\* C5: the registry never holds two records for one host, and right after an
\* add_device that succeeded the lookup of its host gives exactly the record
\* just written.
C5_UniqueHostLastWriteWins ==
    /\ \A r1 \in devices, r2 \in devices : r1.host = r2.host => r1 = r2
    /\ (dbret.op = "add_device" /\ dbret.ok) =>
           get_device(devices, dbret.host, FALSE) =
               {Row(dbret.host, dbret.username, dbret.password, dbret.brand)}

C5_Witness ==
    /\ dbret.op = "add_device" /\ dbret.ok
    /\ dbret.old # {}
    /\ \A r \in dbret.old : /\ r.username # dbret.username
                            /\ r.password # dbret.password
                            /\ r.brand # dbret.brand
    /\ Cardinality(devices) = 2

\* C6: a transport failure in execute is reported as AuthenticationFailed when
\* it is an authentication exception, as TransportError when it is any other
\* SSH exception, and as Unknown otherwise.
C6_Classification ==
    (Finished("execute") /\ ret.value.exc # "") =>
        ret.value.kind =
            IF IsInstance(ret.value.exc, "AuthenticationException")
            THEN "AuthenticationFailed"
            ELSE IF IsInstance(ret.value.exc, "SSHException")
            THEN "TransportError"
            ELSE "Unknown"

C6_Witness ==
    /\ Finished("execute")
    /\ ret.value.exc = "BadAuthenticationType"
    /\ ret.value.kind = "AuthenticationFailed"

\* the steps of an invocation in progress
Step ==
    \/ \E fails \in BOOLEAN, file \in PromptFiles : ExecuteLookup(fails, file)
    \/ \E outcome \in {"ok"} \cup ConnectRaises : ExecuteConnect(outcome)
    \/ \E outcome \in {"ok"} \cup ExecRaises : ExecuteExecCommand(outcome)
    \/ \E out \in Outputs, err \in Errors, outcome \in {"ok"} \cup ReadRaises :
          ExecuteRead(out, err, outcome)
    \/ \E fails \in BOOLEAN : ProbeLookup(fails)
    \/ \E outcome \in {"ok"} \cup ConnectRaises : ProbeConnect(outcome)

\* C7: no invocation of execute or probe ends with an exception escaping: each
\* one that ends has returned a result, and one in progress can take its next
\* step.
C7_AlwaysReturns ==
    /\ ret.status # "raised"
    /\ (Finished("execute") \/ Finished("probe")) =>
           /\ ret.status = "returned"
           /\ ret.value.kind \notin {"none", "escapes"}
    /\ call.pc # "idle" => ENABLED Step

C7_Witness ==
    /\ Finished("execute")
    /\ ret.status = "returned"
    /\ ret.value.exc = "timeout"
    /\ Count("exec_command") = 1

\* C8: after a command ran, stderr alone decides the result: non-empty, both
\* streams and no brand tag, not a failure; empty, the upper-cased registry
\* brand as tag and the stdout as read, error kind None.
C8_Packaging ==
    (Finished("execute") /\ Count("close") = 1) =>
        /\ ret.status = "returned"
        /\ ErrorKind(ret.value) = "None"
        /\ ret.value.stdout = decode(call.raw_out)
        /\ IF decode(call.raw_err) # <<>>
           THEN /\ ret.value.kind = "OutputAndError"
                /\ ret.value.stderr = decode(call.raw_err)
                /\ ret.value.brand = <<>>
           ELSE /\ ret.value.kind = "TaggedOutput"
                /\ ret.value.brand = upper(Snapshot.brand)

C8_Witness ==
    /\ Finished("execute") /\ Count("close") = 1
    /\ Snapshot.brand = S_Arista
    /\ ret.value.kind = "TaggedOutput"
    /\ ret.value.brand = <<"A","R","I","S","T","A">>
    /\ call.raw_out = <<"v", BadByte>>
    /\ ret.value.stdout = <<"v">>

\* C9: exec_command gets the caller's command text unchanged, for every brand,
\* and is called at most once in an invocation.
C9_CommandVerbatim ==
    /\ Count("exec_command") <= 1
    /\ \A i \in DOMAIN calls :
           calls[i].op = "exec_command" => calls[i].command = call.command

C9_Witness ==
    /\ Finished("execute") /\ Count("exec_command") = 1
    /\ call.brand = lower(S_Arista)
    /\ calls[2].command = S_show

C11_PartialUpdate ==
    (dbret.op = "update_device" /\ ~dbret.failed) =>
        IF dbret.old = {}
           \/ (dbret.username = <<>> /\ dbret.password = <<>> /\ dbret.brand = <<>>)
        THEN ~dbret.ok /\ devices = dbret.before
        ELSE /\ dbret.ok
             /\ \A r \in dbret.before : r.host # dbret.host => r \in devices
             /\ \A r \in devices : r.host # dbret.host => r \in dbret.before
             /\ \E o \in dbret.old :
                   SelectByHost(devices, dbret.host) =
                     { [host |-> dbret.host,
                        username |-> IF dbret.username # <<>>
                                     THEN dbret.username ELSE o.username,
                        password |-> IF dbret.password # <<>>
                                     THEN dbret.password ELSE o.password,
                        brand |-> IF dbret.brand # <<>>
                                  THEN dbret.brand ELSE o.brand] }

C11_Witness ==
    /\ dbret.op = "update_device" /\ dbret.ok
    /\ dbret.username = <<>> /\ dbret.password = <<>> /\ dbret.brand = S_ZTE
    /\ dbret.old = {Row(S_sw1, S_admin, S_secret, S_Arista)}
    /\ SelectByHost(devices, S_sw1) = {Row(S_sw1, S_admin, S_secret, S_ZTE)}
    /\ Cardinality(devices) = 2

\* right after a delete_device: what it returned and what it left
C12_DeleteInv ==
    (dbret.op = "delete_device" /\ ~dbret.failed) =>
        /\ dbret.ok = (dbret.old # {})
        /\ get_device(devices, dbret.host, FALSE) = {}
        /\ devices = {r \in dbret.before : r.host # dbret.host}

\* a delete_device made right after one on the same host
C12_SecondDelete ==
    (/\ dbret.op = "delete_device" /\ ~dbret.failed
     /\ dbret'.op = "delete_device" /\ ~dbret'.failed
     /\ dbret'.host = dbret.host
     /\ dbret'.before = devices) => ~dbret'.ok

\* C12: a delete_device that the storage layer lets through returns true
\* exactly when the host had a record; afterwards the lookup of the host gives
\* nothing and every other record is as before; and a delete_device that
\* follows one on the same host returns false.
C12_Delete == [](C12_DeleteInv) /\ [][C12_SecondDelete]_vars

C12_Witness ==
    /\ dbret.op = "delete_device" /\ dbret.ok
    /\ dbret.old # {}
    /\ devices # {}
    /\ get_device(devices, dbret.host, FALSE) = {}

\* kw occurs in s as it stands
Contains(s, kw) ==
    \E i \in 0..(Len(s) - Len(kw)) : SubSeq(s, i + 1, i + Len(kw)) = kw

\* C13: a search_devices that the storage layer lets through returns exactly
\* the records whose host or username holds the keyword as a literal
\* substring, each once, in ascending order of host.
C13_LiteralSubstring ==
    (dbret.op = "search_devices" /\ ~dbret.failed) =>
        /\ {dbret.rows[i] : i \in DOMAIN dbret.rows} =
              {r \in dbret.before : \/ Contains(r.host, dbret.keyword)
                                    \/ Contains(r.username, dbret.keyword)}
        /\ \A i, j \in DOMAIN dbret.rows :
              i < j => /\ dbret.rows[i] # dbret.rows[j]
                       /\ StrLess(dbret.rows[i].host, dbret.rows[j].host)

\* C14: when the storage layer fails no registry operation raises: the
\* table is as it was, add_device, update_device and delete_device return
\* false, get_device returns no record, list_devices and search_devices
\* return the empty list.
C14_FailureContained ==
    dbret.failed =>
        /\ ~dbret.raised
        /\ devices = dbret.before
        /\ dbret.op \in {"add_device", "update_device", "delete_device"}
              => ~dbret.ok
        /\ dbret.op \in {"get_device", "list_devices", "search_devices"}
              => dbret.rows = <<>>

C14_Witness ==
    /\ dbret.failed
    /\ dbret.op = "get_device"
    /\ dbret.old # {}
    /\ dbret.rows = <<>>
    /\ Cardinality(devices) = 2

\* the table after the committed writes are made one after another
RECURSIVE ReplayTable(_)
ReplayTable(log) ==
    IF log = <<>> THEN {}
    ELSE ApplyOp(ReplayTable(SubSeq(log, 1, Len(log) - 1)),
                 log[Len(log)].op, FALSE).table

\* C15: with two callers writing at once the table is what the committed
\* writes give when made one after another in commit order, each having
\* returned what it returns in that order; and what a reader is given is
\* the table after some number of whole writes, never a pending change.
C15_Serialized ==
    /\ devices = ReplayTable(sq.log)
    /\ \A i \in DOMAIN sq.log :
          sq.log[i].ok = ApplyOp(ReplayTable(SubSeq(sq.log, 1, i - 1)),
                                 sq.log[i].op, FALSE).ok
    /\ \A p \in Sessions :
          sq.txn[p].pc = "reading" =>
             \E k \in 0..Len(sq.log) :
                sq.txn[p].snapshot = ReplayTable(SubSeq(sq.log, 1, k))

C15_Witness ==
    /\ Len(sq.log) = 2
    /\ sq.log[1].op.op = "add_device" /\ sq.log[2].op.op = "update_device"
    /\ sq.log[2].ok
    /\ sq.txn["cli1"].pc = "executed"
    /\ sq.txn["cli2"].pc = "reading"
    /\ sq.txn["cli1"].pending # devices

\* the transport calls of an execute, in the order of the source
TransportOrder == << "connect", "exec_command", "close" >>

\* C16: the transport calls of one execute are a beginning of connect,
\* exec_command, close, so each is made at most once and in that order; none
\* is made before the lookup has returned a record; after a connect that
\* failed nothing more is called; and an invocation starts with no calls made
\* and no session.
C16_OneAttemptInOrder ==
    call.tool = "execute" =>
        /\ Len(calls) <= Len(TransportOrder)
        /\ \A i \in DOMAIN calls : calls[i].op = TransportOrder[i]
        /\ calls # <<>> => call.pc # "lookup" /\ call.device_info # {}
        /\ (Finished("execute") /\ ~call.connected) => Len(calls) <= 1
        /\ call.pc = "lookup" => calls = <<>> /\ ~call.connected

C16_Witness ==
    /\ Finished("execute")
    /\ Len(calls) = 3
    /\ calls[1].op = "connect" /\ calls[2].op = "exec_command"
    /\ calls[3].op = "close"
    /\ ret.value.kind = "TaggedOutput"

C18_DefaultAdmin ==
    \A i \in DOMAIN calls :
        calls[i].op = "connect" =>
            /\ (call.arg_username = <<>> /\ Snapshot.username = <<>>)
                  => calls[i].username = S_admin
            /\ (call.arg_password = <<>> /\ Snapshot.password = <<>>)
                  => calls[i].password = S_empty

\* C19: while an execute or a probe waits in connect, exec_command or a read
\* it holds neither a read lock nor the write lock of the registry, and each
\* add_device, update_device and delete_device of another caller can be made.
C19_NoLockWhileWaiting ==
    call.pc \in {"connect", "exec", "read"} =>
        /\ Engine \notin sq.shared
        /\ sq.reserved # Engine
        /\ \A h \in Hosts :
              /\ \A r \in WriterRecords : ENABLED WriterAdd(h, r[1], r[2], r[3])
              /\ \A b \in RegBrands : ENABLED WriterUpdateBrand(h, b)
              /\ ENABLED WriterDelete(h)

\* a record was deleted while the execute that had looked it up was waiting
C19_Witness ==
    /\ call.tool = "execute" /\ call.pc = "exec"
    /\ call.device_info # {}
    /\ SelectByHost(devices, call.host) = {}
    /\ Engine \notin sq.shared

\* the scan finds none of the four fields the suggestions are built from
NoSuggestionField(content, brand) ==
    LET brand_info == ScanLines(content, 1, MappingGet(lower(brand)), FALSE, <<>>)
    IN  DOMAIN brand_info \cap
           {"mode_switch", "common_commands", "config_save", "special_features"} = {}

\* C20: a call of the resolver returns what it returns for the same brand in
\* lower case and in upper case; it returns None, without raising, when the
\* brand is not in brand_mapping, when SM-CLI.md is missing or cannot be
\* read, and when the brand's section has none of the four fields; and it
\* makes no transport call.
C20_ResolverCaseAndNone ==
    rs.pc = "done" =>
        /\ ~rs.raised
        /\ calls = <<>>
        /\ rs.result = get_brand_commands_from_prompt(rs.file, lower(rs.brand))
        /\ rs.result = get_brand_commands_from_prompt(rs.file, upper(rs.brand))
        /\ ( \/ MappingGet(lower(rs.brand)) = <<>>
             \/ ~rs.file.exists
             \/ rs.file.unreadable
             \/ NoSuggestionField(rs.file.content, rs.brand) )
              => rs.result = <<>>

C20_Witness ==
    /\ rs.pc = "done"
    /\ rs.brand = upper(S_Cisco)
    /\ rs.result # <<>>
    /\ rs.result[1] = <<"mode_switch", "enable">>

\* C21: no step of an execute or a probe, whatever it returns, changes the
\* rows of the registry: the credentials the caller overrides with and the
\* outcome of the connection are not written back.
C21_ForwardReadOnly ==
    [][call' # call => devices' = devices]_vars

\* an execute succeeded with the caller's username and password, and the
\* record still has its own
C21_Witness ==
    /\ Finished("execute")
    /\ ret.value.kind = "TaggedOutput"
    /\ call.arg_username = S_root /\ call.arg_password = S_pw
    /\ calls[1].username = S_root /\ calls[1].password = S_pw
    /\ SelectByHost(devices, call.host) =
          {Row(call.host, S_admin, S_secret, S_Arista)}

\* right after an add_device: the host's record is the one given, whole
\* (with no brand given, the brand is "Unknown" whatever it was), and the
\* same add_device made on this table would leave it as it is
C22_ReplaceInv ==
    (dbret.op = "add_device" /\ ~dbret.failed) =>
        /\ get_device(devices, dbret.host, FALSE) =
              {Row(dbret.host, dbret.username, dbret.password,
                   IF dbret.omitted THEN S_Unknown ELSE dbret.brand)}
        /\ add_device(devices, dbret.host, dbret.username, dbret.password,
                      dbret.brand, FALSE).table = devices

\* an add_device made right after the same add_device
C22_Repeat ==
    (/\ dbret.op = "add_device" /\ ~dbret.failed
     /\ dbret'.op = "add_device" /\ ~dbret'.failed
     /\ dbret'.host = dbret.host /\ dbret'.username = dbret.username
     /\ dbret'.password = dbret.password /\ dbret'.brand = dbret.brand
     /\ dbret'.omitted = dbret.omitted
     /\ dbret'.before = devices) => devices' = devices

\* C22: add_device replaces the whole record: after it the host's record has
\* the username and password given and, when no brand was given, the brand
\* "Unknown" and not the brand the record had; and repeating the same
\* add_device leaves host, username, password and brand of every record as
\* they are.
C22_ReplaceNotMerge == [](C22_ReplaceInv) /\ [][C22_Repeat]_vars

C22_Witness ==
    /\ dbret.op = "add_device" /\ ~dbret.failed /\ dbret.omitted
    /\ dbret.old = {Row(S_sw1, S_admin, S_secret, S_Arista)}
    /\ get_device(devices, S_sw1, FALSE) = {Row(S_sw1, S_empty, S_empty, S_Unknown)}
    /\ Cardinality(devices) = 2

\* once the lookup is made, the invocation has read the registry once and
\* what it uses is computed from the one row it was given and the arguments
C23_FromOneRow ==
    /\ call.pc = "lookup" => call.reads = 0 /\ calls = <<>>
    /\ (call.tool \in {"execute", "probe"} /\ call.pc # "lookup") =>
          /\ call.reads = 1
          /\ Cardinality(call.device_info) <= 1
          /\ call.device_info = {} => calls = <<>>
          /\ call.device_info # {} =>
                /\ call.username = Or(call.arg_username, Snapshot.username)
                /\ call.password = Or(call.arg_password, Snapshot.password)
                /\ call.brand = IF call.tool = "execute"
                                THEN lower(Snapshot.brand) ELSE Snapshot.brand
                /\ \A i \in DOMAIN calls :
                      calls[i].op = "connect" =>
                         /\ calls[i].username = call.username
                         /\ calls[i].password = call.password
                /\ ret.value.kind \in {"TaggedOutput", "ProbeSuccess",
                                       "Suggestion", "GenericSuggestion"}
                      => upper(ret.value.brand) = upper(Snapshot.brand)

\* the lookup is given the host's row as the table has it at that moment, and
\* no later step of the invocation changes what it was given
C23_ReadThenKeep ==
    /\ (call.pc = "lookup" /\ call'.pc # "lookup") =>
          call'.device_info \in {{}, SelectByHost(devices, call.host)}
    /\ (call.pc \notin {"idle", "lookup"}) =>
          /\ call'.device_info = call.device_info
          /\ call'.reads = call.reads
          /\ call'.username = call.username
          /\ call'.password = call.password
          /\ call'.brand = call.brand

\* C23: an execute or a probe reads the registry once, before it connects;
\* the username, the password and the brand it uses come from the one row
\* that read returned, and a write to the host's record made after the read
\* changes nothing of the invocation.
C23_SingleVersion == [](C23_FromOneRow) /\ [][C23_ReadThenKeep]_vars

\* the record was replaced after the lookup and the connect was made with
\* what the lookup had returned
C23_Witness ==
    /\ call.tool = "execute" /\ call.pc = "exec"
    /\ call.arg_username = <<>> /\ call.arg_password = <<>>
    /\ Snapshot = Row(call.host, S_admin, S_secret, S_Arista)
    /\ SelectByHost(devices, call.host) = {Row(call.host, S_empty, S_empty, S_ZTE)}
    /\ calls[1].username = S_admin /\ calls[1].password = S_secret

\* the hosts that have a record
HostsOf(table) == {r.host : r \in table}

\* C24: of the registry operations only add_device adds a host, and only its
\* own, and only delete_device removes one, and only its own: update_device,
\* get_device, list_devices and search_devices leave the set of hosts as it
\* was, update_device on a host with no record makes none, and each of
\* add_device, update_device and delete_device leaves the records of the
\* other hosts as they were.
C24_HostSetFrame ==
    /\ dbret.op \in {"update_device", "get_device", "list_devices",
                     "search_devices", "none"}
          => HostsOf(devices) = HostsOf(dbret.before)
    /\ dbret.op = "add_device" =>
          /\ HostsOf(dbret.before) \subseteq HostsOf(devices)
          /\ HostsOf(devices) \subseteq HostsOf(dbret.before) \cup {dbret.host}
    /\ dbret.op = "delete_device" =>
          /\ HostsOf(devices) \subseteq HostsOf(dbret.before)
          /\ HostsOf(dbret.before) \ {dbret.host} \subseteq HostsOf(devices)
    /\ (dbret.op = "update_device" /\ dbret.old = {}) =>
          SelectByHost(devices, dbret.host) = {}
    /\ dbret.op \in {"add_device", "update_device", "delete_device"} =>
          {r \in devices : r.host # dbret.host} =
             {r \in dbret.before : r.host # dbret.host}

\* an update_device with a field to set, on a host with no record, while
\* another host has one
C24_Witness ==
    /\ dbret.op = "update_device" /\ ~dbret.failed
    /\ dbret.brand = S_ZTE
    /\ dbret.old = {}
    /\ HostsOf(devices) = Hosts \ {dbret.host}
    /\ ~dbret.ok

====
